---- MODULE Spec2Model ----
(***************************************************************************)
(* The print-job queue server (src/unnamed/part_000): an in-memory Map of  *)
(* jobs, the submission, poll, acknowledgment and health handlers, and the *)
(* expiry sweeper that the specification describes.                        *)
(*                                                                         *)
(* Each handler runs to completion on the single-threaded event loop, so   *)
(* one action is one whole request.  `req' holds the request (or timer     *)
(* event) handled last and `resp' the response it was given.               *)
(*                                                                         *)
(* Three specifications explore the same handlers with different request   *)
(* sets: Spec (all six operations, the clock and the sweeper),             *)
(* SpecRequests (every credential and body shape, at one clock reading)    *)
(* and SpecDispatch (a store long enough for the poll's batch size).       *)
(*                                                                         *)
(* The print agent (src/index.js) is a process of its own: SpecAgent       *)
(* explores its handlers and the commands they run.                        *)
(***************************************************************************)
EXTENDS Integers, Sequences, FiniteSets, TLC

VARIABLES jobs, now, nextId, req, resp

vars == <<jobs, now, nextId, req, resp>>

----------------------------------------------------------------------------
(* Bounds of the exploration.                                              *)

\* submissions accepted in a behaviour of Spec and of SpecRequests
MaxJobs == 2
\* submissions accepted in a behaviour of SpecDispatch
MaxJobsDispatch == 7
\* the oldest jobs that agents acknowledge in a behaviour of SpecDispatch
MaxAckedDispatch == 3
\* clock advances (of TickStep minutes each) in a behaviour of Spec
MaxTicks == 2

----------------------------------------------------------------------------
(* JavaScript values.                                                      *)

\* a missing header, query parameter or body field
UNDEFINED == "undefined"
NULL == "null"

\* ToBoolean on the values the model uses (strings, null, undefined)
Truthy(v) == v \notin {UNDEFINED, NULL, ""}

\* a || b
Or(a, b) == IF Truthy(a) THEN a ELSE b

\* destructuring default: { x = d } = body
Default(v, d) == IF v = UNDEFINED THEN d ELSE v

----------------------------------------------------------------------------
(* Configuration.                                                          *)

API_KEY == "secret-api-key"
AGENT_TOKEN == "mi-token-seguro-que-pegaras-en-panel"

\* the poll's batch size
PendingCap == 5

\* the clock is read in minutes
TTL == 30
TickStep == TTL

----------------------------------------------------------------------------
(* The jobs Map: a sequence of job records in insertion order, one per key *)

RECURSIVE IndexOf(_, _, _)
IndexOf(js, id, i) ==
    IF i > Len(js) THEN 0
    ELSE IF js[i].id = id THEN i
    ELSE IndexOf(js, id, i + 1)

JobsHas(js, id) == IndexOf(js, id, 1) # 0

\* Map.prototype.get
JobsGet(js, id) == js[IndexOf(js, id, 1)]

\* Map.prototype.set: an existing key keeps its place, a new key goes last
\* (variant) a set that writes an existing key's value into the first entry
JobsSetFirst(js, id, job) ==
    IF JobsHas(js, id) THEN [js EXCEPT ![1] = job] ELSE Append(js, job)

JobsSet(js, id, job) ==
    IF JobsHas(js, id)
    THEN [js EXCEPT ![IndexOf(js, id, 1)] = job]
    ELSE Append(js, job)

\* uuidv4(): a value no earlier call returned
\* (variant) an id generator that returns its first value again
uuidRepeating == nextId - (nextId - 1)

uuidv4 == nextId

----------------------------------------------------------------------------
(* Responses.                                                              *)

Json(code, body) == [status |-> code, json |-> body]

NoRequest == [op |-> "none"]
NoResponse == [status |-> 0, json |-> [success |-> FALSE]]

----------------------------------------------------------------------------
(* POST /api/print/jobs                                                    *)

requireApiKey(hdr, qry) == Or(hdr, qry) = API_KEY

\* (variant) rejecting only when both required fields are missing
MissingBoth(body) == ~Truthy(body.printerName) /\ ~Truthy(body.payload)

MissingRequired(body) == ~Truthy(body.printerName) \/ ~Truthy(body.payload)

SubmitBody(agentId, printerName, payload) ==
    [agentId |-> agentId, printerName |-> printerName, type |-> UNDEFINED,
     payload |-> payload, encoding |-> UNDEFINED, cutType |-> UNDEFINED,
     feedLines |-> UNDEFINED]

\* (variant) a job stored as already handed out
NewJobClaimed(id, body) ==
    [id |-> id,
     agentId |-> Or(body.agentId, NULL),
     printerName |-> body.printerName,
     type |-> Default(body.type, "text"),
     payload |-> body.payload,
     encoding |-> Default(body.encoding, "utf8"),
     cutType |-> Default(body.cutType, "full"),
     feedLines |-> Default(body.feedLines, 3),
     status |-> "processing",
     result |-> NULL,
     createdAt |-> now]

NewJob(id, body) ==
    [id |-> id,
     agentId |-> Or(body.agentId, NULL),
     printerName |-> body.printerName,
     type |-> Default(body.type, "text"),
     payload |-> body.payload,
     encoding |-> Default(body.encoding, "utf8"),
     cutType |-> Default(body.cutType, "full"),
     feedLines |-> Default(body.feedLines, 3),
     status |-> "pending",
     result |-> NULL,
     createdAt |-> now]

SubmitAccepted(hdr, qry, body) ==
    requireApiKey(hdr, qry) /\ ~MissingRequired(body)

SubmitJob(hdr, qry, body) ==
    /\ req' = [op |-> "submit", apiKeyHdr |-> hdr, apiKeyQry |-> qry, body |-> body]
    /\ IF ~requireApiKey(hdr, qry)
       THEN /\ resp' = Json(401, [success |-> FALSE, message |-> "Unauthorized - invalid API key"])
            /\ UNCHANGED <<jobs, nextId>>
       ELSE IF MissingRequired(body)
       THEN /\ resp' = Json(400, [success |-> FALSE, message |-> "printerName and payload required"])
            /\ UNCHANGED <<jobs, nextId>>
       ELSE LET id == uuidv4 IN
            /\ jobs' = JobsSet(jobs, id, NewJob(id, body))
            /\ nextId' = nextId + 1
            /\ resp' = Json(200, [success |-> TRUE, jobId |-> id])
    /\ UNCHANGED now

----------------------------------------------------------------------------
(* GET /api/print/jobs/pending                                             *)

\* (variant) one credential namespace for clients and agents
EitherSecret(token) == token \in {AGENT_TOKEN, API_KEY}

AgentAuthorized(token) == token = AGENT_TOKEN

\* (variant) a poll that ignores the job's agentId
PollMatchesAnyAgent(job, agentId) == job.status = "pending"

PollMatches(job, agentId) ==
    job.status = "pending" /\ (~Truthy(job.agentId) \/ job.agentId = agentId)

\* (variant) a batch that stops one job late
BatchOverfull(pending) == Len(pending) > PendingCap

BatchFull(pending) == Len(pending) >= PendingCap

RECURSIVE PendingLoop(_, _, _, _)
PendingLoop(js, i, agentId, pending) ==
    IF i > Len(js) THEN pending
    ELSE IF PollMatches(js[i], agentId)
         THEN LET pushed == Append(pending, js[i]) IN
              IF BatchFull(pushed) THEN pushed
              ELSE PendingLoop(js, i + 1, agentId, pushed)
         ELSE PendingLoop(js, i + 1, agentId, pending)

\* (variant) a poll that claims the jobs it hands out
PollJobsClaiming(token, qAgentId, qLimit) ==
    /\ req' = [op |-> "poll", token |-> token, agentId |-> qAgentId, limit |-> qLimit]
    /\ IF ~AgentAuthorized(token)
       THEN /\ resp' = Json(401, [success |-> FALSE, message |-> "Unauthorized agent"])
            /\ UNCHANGED jobs
       ELSE LET pending == PendingLoop(jobs, 1, Or(qAgentId, NULL), <<>>) IN
            /\ resp' = Json(200, [success |-> TRUE, jobs |-> pending])
            /\ jobs' = [i \in 1 .. Len(jobs) |->
                          IF \E k \in 1 .. Len(pending) : pending[k].id = jobs[i].id
                          THEN [jobs[i] EXCEPT !.status = "processing"]
                          ELSE jobs[i]]
    /\ UNCHANGED <<now, nextId>>

\* the handler reads token and agentId; a limit in the query string is not read
PollJobs(token, qAgentId, qLimit) ==
    /\ req' = [op |-> "poll", token |-> token, agentId |-> qAgentId, limit |-> qLimit]
    /\ IF ~AgentAuthorized(token)
       THEN resp' = Json(401, [success |-> FALSE, message |-> "Unauthorized agent"])
       ELSE LET agentId == Or(qAgentId, NULL) IN
            resp' = Json(200, [success |-> TRUE,
                               jobs |-> PendingLoop(jobs, 1, agentId, <<>>)])
    /\ UNCHANGED <<jobs, now, nextId>>

----------------------------------------------------------------------------
(* POST /api/print/jobs/:id/ack                                            *)

AckBody(status, result) == [status |-> status, result |-> result]

\* (variant) an acknowledgment that assigns both fields whatever the body holds
AckedJobOverwrite(job, body) ==
    [updatedAt |-> now] @@ [job EXCEPT !.status = body.status, !.result = body.result]

\* (variant) an acknowledgment that takes a status only from the named ones
AckedJobValidated(job, body) ==
    LET s == IF body.status \in {"pending", "processing", "done", "error"}
             THEN body.status ELSE job.status
        r == IF Truthy(body.result) THEN body.result ELSE job.result
    IN  [updatedAt |-> now] @@ [job EXCEPT !.status = s, !.result = r]

AckedJob(job, body) ==
    LET s == IF Truthy(body.status) THEN body.status ELSE job.status
        r == IF Truthy(body.result) THEN body.result ELSE job.result
    IN  [updatedAt |-> now] @@ [job EXCEPT !.status = s, !.result = r]

\* (variant) an acknowledgment that creates the record it does not find
AckJobUpsert(token, id, body) ==
    /\ req' = [op |-> "ack", token |-> token, id |-> id, body |-> body]
    /\ IF ~AgentAuthorized(token)
       THEN /\ resp' = Json(401, [success |-> FALSE, message |-> "Unauthorized agent"])
            /\ UNCHANGED jobs
       ELSE /\ jobs' = JobsSet(jobs, id,
                               IF JobsHas(jobs, id)
                               THEN AckedJob(JobsGet(jobs, id), body)
                               ELSE [id |-> id, status |-> body.status,
                                     result |-> body.result, updatedAt |-> now])
            /\ resp' = Json(200, [success |-> TRUE])
    /\ UNCHANGED <<now, nextId>>

AckJob(token, id, body) ==
    /\ req' = [op |-> "ack", token |-> token, id |-> id, body |-> body]
    /\ IF ~AgentAuthorized(token)
       THEN /\ resp' = Json(401, [success |-> FALSE, message |-> "Unauthorized agent"])
            /\ UNCHANGED jobs
       ELSE IF ~JobsHas(jobs, id)
       THEN /\ resp' = Json(404, [success |-> FALSE, message |-> "job not found"])
            /\ UNCHANGED jobs
       ELSE /\ jobs' = JobsSet(jobs, id, AckedJob(JobsGet(jobs, id), body))
            /\ resp' = Json(200, [success |-> TRUE])
    /\ UNCHANGED <<now, nextId>>

----------------------------------------------------------------------------
(* GET /healthz                                                            *)

Healthz ==
    /\ req' = [op |-> "health"]
    /\ resp' = Json(200, [status |-> "ok", time |-> now])
    /\ UNCHANGED <<jobs, now, nextId>>

----------------------------------------------------------------------------
(* The expiry sweeper and the clock.                                       *)

\* (variant) expiry at the TTL instead of past it
ExpiredAtTTL(job, t) == t - job.createdAt >= TTL

Expired(job, t) == t - job.createdAt > TTL

SweepJobs ==
    /\ jobs' = SelectSeq(jobs, LAMBDA job : ~Expired(job, now))
    /\ req' = [op |-> "sweep"]
    /\ resp' = NoResponse
    /\ UNCHANGED <<now, nextId>>

ClockTick ==
    /\ now < MaxTicks * TickStep
    /\ now' = now + TickStep
    /\ req' = [op |-> "tick"]
    /\ resp' = NoResponse
    /\ UNCHANGED <<jobs, nextId>>

----------------------------------------------------------------------------
(* The print agent (src/index.js): GET /printers and POST /print, which    *)
(* run OS commands through runCommand.  A handler runs up to its next      *)
(* await in one action; the events of a spawned command (close, error,     *)
(* the kill timer) are actions of their own.  One request is in progress   *)
(* at a time; `areq' is that request, `ares' its response (NoAnswer until  *)
(* it is sent), `runs' the commands it has started, in order.              *)

VARIABLES host, areq, pc, tmpFile, runs, nativeCalls, ares

agentVars == <<host, areq, pc, tmpFile, runs, nativeCalls, ares>>

\* process.env.PAIRING_TOKEN is not set
PAIRING_TOKEN == Or(UNDEFINED, "changeme-token")

\* (variant) a check that lets a request without the header through
validateTokenOrMissing(header) ==
    IF ~Truthy(PAIRING_TOKEN) THEN FALSE
    ELSE header = UNDEFINED \/ header = PAIRING_TOKEN

validateToken(header) ==
    IF ~Truthy(PAIRING_TOKEN) THEN FALSE ELSE header = PAIRING_TOKEN

\* a string as the sequence of its characters
HexStrip(hex) == SelectSeq(hex, LAMBDA c : c \notin {" ", "-"})

\* hexToBuffer throws on an odd number of digits
hexToBufferThrows(hex) == Len(HexStrip(hex)) % 2 # 0

(* runCommand: a promise, a child process and its kill timer.              *)

Pending == [state |-> "pending", code |-> UNDEFINED, error |-> UNDEFINED]
Resolved(code) == [state |-> "resolved", code |-> code, error |-> UNDEFINED]
Rejected(message) == [state |-> "rejected", code |-> UNDEFINED, error |-> message]

\* (variant) a promise that takes the outcome of the last resolve or reject
SettleLast(promise, outcome) == outcome

\* resolve and reject act on a pending promise only
Settle(promise, outcome) ==
    IF promise.state = "pending" THEN outcome ELSE promise

Settled(promise) == promise.state # "pending"

\* the state runCommand leaves behind when it returns its promise
runCommand(cmd, timeout) ==
    [cmd |-> cmd, timeout |-> timeout, proc |-> "running", killed |-> FALSE,
     timer |-> "armed", promise |-> Pending]

\* exit codes as the close event reports them; null after a signal
ExitCodes(run) == IF run.killed THEN {"0", "1", NULL} ELSE {"0", "1"}

\* p.on('close'): the process has ended and its pipes are closed
ProcClose(i, code) ==
    /\ runs[i].proc = "running"
    /\ runs' = [runs EXCEPT ![i] =
                  [@ EXCEPT !.proc = "exited",
                            !.timer = IF @ = "armed" THEN "cleared" ELSE @,
                            !.promise = Settle(@, Resolved(code))]]
    /\ UNCHANGED <<host, areq, pc, tmpFile, nativeCalls, ares>>
    /\ UNCHANGED vars

\* the command could not be spawned: 'error', then 'close', in one turn of
\* the event loop
SpawnFails(i) ==
    /\ runs[i].proc = "running"
    /\ ~runs[i].killed
    /\ runs[i].timer = "armed"
    /\ runs' = [runs EXCEPT ![i] =
                  [@ EXCEPT !.proc = "failed",
                            !.timer = "cleared",
                            !.promise = Settle(Settle(@, Rejected("spawn ENOENT")),
                                               Resolved("-2"))]]
    /\ UNCHANGED <<host, areq, pc, tmpFile, nativeCalls, ares>>
    /\ UNCHANGED vars

\* (variant) a timer that rejects and leaves the process running
KillTimerNoKill(i) ==
    /\ runs[i].timer = "armed"
    /\ runs' = [runs EXCEPT ![i] =
                  [@ EXCEPT !.timer = "fired",
                            !.promise = Settle(@, Rejected("Timeout"))]]
    /\ UNCHANGED <<host, areq, pc, tmpFile, nativeCalls, ares>>
    /\ UNCHANGED vars

\* the setTimeout callback: p.kill(), then reject
KillTimer(i) ==
    /\ runs[i].timer = "armed"
    /\ runs' = [runs EXCEPT ![i] =
                  [@ EXCEPT !.timer = "fired",
                            !.killed = TRUE,
                            !.promise = Settle(@, Rejected("Timeout"))]]
    /\ UNCHANGED <<host, areq, pc, tmpFile, nativeCalls, ares>>
    /\ UNCHANGED vars

(* The handlers.                                                           *)

NoAnswer == [status |-> 0, success |-> FALSE]

\* res.status(code).json({success, ...}): the handler returns
Answer(code, success) ==
    /\ ares' = [status |-> code, success |-> success]
    /\ pc' = "done"

\* the promise the handler awaits: that of the command started last
Awaited == runs[Len(runs)].promise

\* promise.catch(e => ({ code: -1, ... }))
CatchCode(promise) == IF promise.state = "rejected" THEN "-1" ELSE promise.code

PrintBody(printerName, type, payload) ==
    [printerName |-> printerName, type |-> type, payload |-> payload]

\* POST /print, up to its first await or its response
PostPrint(token, body) ==
    /\ pc \in {"idle", "done"}
    /\ areq' = [op |-> "print", token |-> token, body |-> body]
    /\ IF ~validateToken(token)
       THEN /\ Answer(401, FALSE)
            /\ tmpFile' = "none" /\ runs' = <<>> /\ nativeCalls' = 0
       ELSE IF ~Truthy(body.printerName)
       THEN /\ Answer(400, FALSE)
            /\ tmpFile' = "none" /\ runs' = <<>> /\ nativeCalls' = 0
       ELSE IF Default(body.type, "text") = "hex" /\ hexToBufferThrows(body.payload)
       THEN /\ Answer(500, FALSE)
            /\ tmpFile' = "none" /\ runs' = <<>> /\ nativeCalls' = 0
       ELSE IF host.platform = "win32"
       THEN IF host.nativePrinter
            THEN /\ nativeCalls' = 1
                 /\ pc' = "awaitNative"
                 /\ ares' = NoAnswer
                 /\ tmpFile' = "none" /\ runs' = <<>>
            ELSE IF Default(body.type, "text") = "text"
            THEN /\ tmpFile' = "exists"
                 /\ runs' = <<runCommand("powershell", 15000)>>
                 /\ pc' = "awaitPowershell"
                 /\ ares' = NoAnswer
                 /\ nativeCalls' = 0
            ELSE /\ Answer(400, FALSE)
                 /\ tmpFile' = "none" /\ runs' = <<>> /\ nativeCalls' = 0
       ELSE /\ tmpFile' = "exists"
            /\ runs' = <<runCommand("lp", 10000)>>
            /\ pc' = "awaitLp"
            /\ ares' = NoAnswer
            /\ nativeCalls' = 0
    /\ UNCHANGED host
    /\ UNCHANGED vars

\* nativePrinter.printDirect calls success or error
PrintNativeDone(ok) ==
    /\ pc = "awaitNative"
    /\ areq.op = "print"
    /\ IF ok THEN Answer(200, TRUE) ELSE Answer(500, FALSE)
    /\ UNCHANGED <<host, areq, tmpFile, runs, nativeCalls>>
    /\ UNCHANGED vars

\* after await runCommand('powershell', ...): a rejection goes to the catch
\* of the handler, past removeCallback
PrintAfterPowershell ==
    /\ pc = "awaitPowershell"
    /\ Settled(Awaited)
    /\ IF Awaited.state = "rejected"
       THEN /\ Answer(500, FALSE)
            /\ UNCHANGED tmpFile
       ELSE /\ tmpFile' = "removed"
            /\ IF Awaited.code = "0" THEN Answer(200, TRUE) ELSE Answer(500, FALSE)
    /\ UNCHANGED <<host, areq, runs, nativeCalls>>
    /\ UNCHANGED vars

\* after await runCommand('lp', ...).catch(...): removeCallback, then the
\* response or the lpr fallback
PrintAfterLp ==
    /\ pc = "awaitLp"
    /\ Settled(Awaited)
    /\ tmpFile' = "removed"
    /\ IF CatchCode(Awaited) = "0"
       THEN /\ Answer(200, TRUE)
            /\ UNCHANGED runs
       ELSE /\ runs' = Append(runs, runCommand("lpr", 10000))
            /\ pc' = "awaitLpr"
            /\ UNCHANGED ares
    /\ UNCHANGED <<host, areq, nativeCalls>>
    /\ UNCHANGED vars

\* after await runCommand('lpr', ...).catch(...)
PrintAfterLpr ==
    /\ pc = "awaitLpr"
    /\ Settled(Awaited)
    /\ IF CatchCode(Awaited) = "0" THEN Answer(200, TRUE) ELSE Answer(500, FALSE)
    /\ UNCHANGED <<host, areq, tmpFile, runs, nativeCalls>>
    /\ UNCHANGED vars

\* GET /printers, up to its first await or its response
GetPrinters(token) ==
    /\ pc \in {"idle", "done"}
    /\ areq' = [op |-> "printers", token |-> token, body |-> PrintBody(UNDEFINED, UNDEFINED, <<>>)]
    /\ tmpFile' = "none"
    /\ IF ~validateToken(token)
       THEN /\ Answer(401, FALSE)
            /\ runs' = <<>> /\ nativeCalls' = 0
       ELSE IF host.platform = "win32"
       THEN IF host.nativePrinter
            THEN /\ nativeCalls' = 1
                 /\ Answer(200, TRUE)
                 /\ runs' = <<>>
            ELSE /\ runs' = <<runCommand("powershell", 10000)>>
                 /\ pc' = "awaitGetPrinter"
                 /\ ares' = NoAnswer
                 /\ nativeCalls' = 0
       ELSE /\ runs' = <<runCommand("which", 10000)>>
            /\ pc' = "awaitWhich"
            /\ ares' = NoAnswer
            /\ nativeCalls' = 0
    /\ UNCHANGED host
    /\ UNCHANGED vars

\* after await runCommand('powershell', Get-Printer): `listed' says whether
\* the output was a list that JSON.parse accepts
PrintersAfterGetPrinter(listed) ==
    /\ pc = "awaitGetPrinter"
    /\ Settled(Awaited)
    /\ IF Awaited.state = "resolved" /\ Awaited.code = "0" /\ listed
       THEN Answer(200, TRUE)
       ELSE Answer(200, FALSE)
    /\ UNCHANGED <<host, areq, tmpFile, runs, nativeCalls>>
    /\ UNCHANGED vars

\* after await runCommand('which', ['lpstat'])
PrintersAfterWhich ==
    /\ pc = "awaitWhich"
    /\ Settled(Awaited)
    /\ IF Awaited.state = "rejected" \/ Awaited.code # "0"
       THEN /\ Answer(200, FALSE)
            /\ UNCHANGED runs
       ELSE /\ runs' = Append(runs, runCommand("lpstat", 10000))
            /\ pc' = "awaitLpstat"
            /\ UNCHANGED ares
    /\ UNCHANGED <<host, areq, tmpFile, nativeCalls>>
    /\ UNCHANGED vars

\* after await runCommand('lpstat', ['-p'])
PrintersAfterLpstat ==
    /\ pc = "awaitLpstat"
    /\ Settled(Awaited)
    /\ IF Awaited.state = "rejected" THEN Answer(200, FALSE) ELSE Answer(200, TRUE)
    /\ UNCHANGED <<host, areq, tmpFile, runs, nativeCalls>>
    /\ UNCHANGED vars

----------------------------------------------------------------------------
(* Requests explored.                                                      *)

GoodBody == SubmitBody(UNDEFINED, "P1", "hello")

\* <<x-api-key header, apiKey query parameter, body>>
KeyRequests ==
    {<<h, UNDEFINED, GoodBody>> : h \in {UNDEFINED, API_KEY, AGENT_TOKEN, "wrong"}}
    \cup {<<h, API_KEY, GoodBody>> : h \in {UNDEFINED, "wrong"}}
    \cup {<<API_KEY, "wrong", GoodBody>>}

BodyRequests ==
    {<<API_KEY, UNDEFINED, SubmitBody(a, "P1", "hello")>> : a \in {"", "A", "B"}}
    \cup {<<API_KEY, UNDEFINED, SubmitBody("A", p, "hello")>> : p \in {UNDEFINED, ""}}
    \cup {<<API_KEY, UNDEFINED, SubmitBody("A", "P1", p)>> : p \in {UNDEFINED, ""}}
    \cup {<<API_KEY, UNDEFINED, SubmitBody(UNDEFINED, UNDEFINED, UNDEFINED)>>}

\* <<x-pairing-token header, agentId query parameter, limit query parameter>>
PollRequests ==
    {<<AGENT_TOKEN, a, UNDEFINED>> : a \in {UNDEFINED, "", "A", "B"}}
    \cup {<<t, "A", UNDEFINED>> : t \in {UNDEFINED, API_KEY, "wrong"}}
    \cup {<<AGENT_TOKEN, UNDEFINED, "1">>}

\* "Pending" is a string outside the statuses the server names
AckStatuses == {UNDEFINED, "", "pending", "processing", "done", "error", "Pending"}

\* <<x-pairing-token header, :id, body>>
AckRequests ==
    {<<AGENT_TOKEN, id, AckBody(s, UNDEFINED)>> : id \in 1 .. (MaxJobs + 1), s \in AckStatuses}
    \cup {<<t, 1, AckBody("done", "ok")>> : t \in {UNDEFINED, API_KEY, "wrong"}}

\* a status alone, a result alone, and both
LifecycleAcks ==
    {<<AGENT_TOKEN, id, b>> :
        id \in 1 .. (MaxJobs + 1),
        b \in {AckBody("processing", UNDEFINED), AckBody(UNDEFINED, "ok"),
               AckBody("done", "ok")}}

DispatchAcks ==
    {<<AGENT_TOKEN, id, AckBody("done", UNDEFINED)>> : id \in 1 .. MaxAckedDispatch}

\* <<x-pairing-token header, body>>; a payload is the sequence of its characters
PrintRequests ==
    {<<t, PrintBody(p, UNDEFINED, <<"h", "i">>)>> :
        t \in {UNDEFINED, "wrong", AGENT_TOKEN, PAIRING_TOKEN}, p \in {UNDEFINED, "P1"}}
    \cup {<<PAIRING_TOKEN, PrintBody("", "text", <<"h", "i">>)>>}
    \cup {<<PAIRING_TOKEN, PrintBody("P1", "hex", h)>> :
            h \in {<<"4", "1">>, <<"4", "1", "-", "0">>}}

PrintersRequests == {UNDEFINED, "wrong", AGENT_TOKEN, PAIRING_TOKEN}

\* os.platform() and whether require('printer') succeeded
Hosts == [platform : {"win32", "linux"}, nativePrinter : BOOLEAN]

----------------------------------------------------------------------------
(* The server.                                                             *)

QueueEmpty ==
    /\ jobs = <<>>
    /\ now = 0
    /\ nextId = 1
    /\ req = NoRequest
    /\ resp = NoResponse

NoAgentRequest == [op |-> "none"]

AgentIdle(h) ==
    /\ host = h
    /\ areq = NoAgentRequest
    /\ pc = "idle"
    /\ tmpFile = "none"
    /\ runs = <<>>
    /\ nativeCalls = 0
    /\ ares = NoAnswer

\* the queue server, next to an agent that is given no request
Init ==
    /\ QueueEmpty
    /\ AgentIdle([platform |-> "linux", nativePrinter |-> FALSE])

Submit(requests, max) ==
    \E r \in requests :
        /\ SubmitAccepted(r[1], r[2], r[3]) => nextId <= max
        /\ SubmitJob(r[1], r[2], r[3])

Poll(requests) == \E r \in requests : PollJobs(r[1], r[2], r[3])

Ack(requests) == \E r \in requests : AckJob(r[1], r[2], r[3])

\* every operation, on a clock that advances
Next ==
    \/ /\ Submit({<<API_KEY, UNDEFINED, GoodBody>>,
                  <<API_KEY, UNDEFINED, SubmitBody(UNDEFINED, "P1", UNDEFINED)>>}, MaxJobs)
       /\ UNCHANGED agentVars
    \/ /\ Poll({<<AGENT_TOKEN, UNDEFINED, UNDEFINED>>})
       /\ UNCHANGED agentVars
    \/ /\ Ack(LifecycleAcks)
       /\ UNCHANGED agentVars
    \/ /\ Healthz
       /\ UNCHANGED agentVars
    \/ /\ SweepJobs
       /\ UNCHANGED agentVars
    \/ /\ ClockTick
       /\ UNCHANGED agentVars

Spec == Init /\ [][Next]_vars

\* every credential and body shape
NextRequests ==
    \/ /\ Submit(KeyRequests \cup BodyRequests, MaxJobs)
       /\ UNCHANGED agentVars
    \/ /\ Poll(PollRequests)
       /\ UNCHANGED agentVars
    \/ /\ Ack(AckRequests)
       /\ UNCHANGED agentVars
    \/ /\ Healthz
       /\ UNCHANGED agentVars

SpecRequests == Init /\ [][NextRequests]_vars

\* a store longer than the poll's batch
NextDispatch ==
    \/ /\ Submit({<<API_KEY, UNDEFINED, SubmitBody(a, "P1", "hello")>> : a \in {UNDEFINED, "A"}},
                 MaxJobsDispatch)
       /\ UNCHANGED agentVars
    \/ /\ Poll({<<AGENT_TOKEN, a, UNDEFINED>> : a \in {UNDEFINED, "A", "B"}})
       /\ UNCHANGED agentVars
    \/ /\ Ack(DispatchAcks)
       /\ UNCHANGED agentVars

SpecDispatch == Init /\ [][NextDispatch]_vars

\* the agent, on each platform, with and without the native module
InitAgent == QueueEmpty /\ \E h \in Hosts : AgentIdle(h)

\* the events of the commands the request in progress has started
CommandCloses ==
    \E i \in 1 .. Len(runs) : \E code \in ExitCodes(runs[i]) : ProcClose(i, code)

CommandFailsToSpawn == \E i \in 1 .. Len(runs) : SpawnFails(i)

CommandTimesOut == \E i \in 1 .. Len(runs) : KillTimer(i)

NextAgent ==
    \/ \E r \in PrintRequests : PostPrint(r[1], r[2])
    \/ \E ok \in BOOLEAN : PrintNativeDone(ok)
    \/ PrintAfterPowershell
    \/ PrintAfterLp
    \/ PrintAfterLpr
    \/ \E t \in PrintersRequests : GetPrinters(t)
    \/ \E listed \in BOOLEAN : PrintersAfterGetPrinter(listed)
    \/ PrintersAfterWhich
    \/ PrintersAfterLpstat
    \/ CommandCloses
    \/ CommandFailsToSpawn
    \/ CommandTimesOut

SpecAgent == InitAgent /\ [][NextAgent]_agentVars

----------------------------------------------------------------------------
(* Properties.                                                             *)

Ids(js) == {js[i].id : i \in 1 .. Len(js)}

Min(a, b) == IF a <= b THEN a ELSE b

AuthorizedPoll == req.op = "poll" /\ req.token = AGENT_TOKEN

\* C1: an authorized poll that names a non-empty agentId B returns no job
\* whose agentId is another non-empty value.
C1_PollNeverCrossesAgents ==
    (AuthorizedPoll /\ req.agentId \notin {UNDEFINED, ""}) =>
        /\ "jobs" \in DOMAIN resp.json
        /\ \A i \in 1 .. Len(resp.json.jobs) :
              resp.json.jobs[i].agentId \in {NULL, req.agentId}

\* agent B polls while a job for agent A is pending, and is given a job
C1_Witness ==
    /\ AuthorizedPoll
    /\ req.agentId = "B"
    /\ \E i \in 1 .. Len(jobs) : jobs[i].agentId = "A" /\ jobs[i].status = "pending"
    /\ Len(resp.json.jobs) > 0

\* the stored jobs an authorized poll for `agentId' is to consider, oldest first
Eligible(agentId) ==
    SelectSeq(jobs, LAMBDA job :
        job.status = "pending" /\ (job.agentId = NULL \/ job.agentId = agentId))

\* C2: an authorized poll answers success with exactly the first
\* min(cap, n) of the n pending jobs that carry no agentId or the requested
\* one, in insertion order; with n = 0 that is the empty list.
C2_PollReturnsFirstMatches ==
    AuthorizedPoll =>
        /\ resp.status = 200
        /\ resp.json.success = TRUE
        /\ LET eligible == Eligible(req.agentId) IN
           resp.json.jobs = SubSeq(eligible, 1, Min(PendingCap, Len(eligible)))
        /\ \A i \in 1 .. Len(resp.json.jobs) : resp.json.jobs[i].status = "pending"

\* more eligible jobs than the cap, with a job the poll must skip among them
C2_Witness ==
    /\ AuthorizedPoll
    /\ Len(Eligible(req.agentId)) > PendingCap
    /\ Len(resp.json.jobs) = PendingCap
    /\ \E i \in 1 .. Len(jobs) :
          /\ jobs[i].status # "pending" \/ jobs[i].agentId \notin {NULL, req.agentId}
          /\ jobs[i].id < resp.json.jobs[PendingCap].id

\* C3: once a job is done or error, no operation sets it back to pending or
\* processing.
C3_StatusOnlyMovesForward ==
    [][\A i \in 1 .. Len(jobs) : \A k \in 1 .. Len(jobs') :
          (jobs[i].status \in {"done", "error"} /\ jobs'[k].id = jobs[i].id)
              => jobs'[k].status \notin {"pending", "processing"}]_vars

\* C4: a sweep removes every job older than the TTL, whatever its status,
\* and keeps every other job as it was.
C4_SweepRemovesExactlyExpired ==
    [][req'.op = "sweep" =>
          /\ \A i \in 1 .. Len(jobs) :
                IF now - jobs[i].createdAt > TTL
                THEN jobs[i].id \notin Ids(jobs')
                ELSE \E k \in 1 .. Len(jobs') : jobs'[k] = jobs[i]
          /\ Len(jobs') <= Len(jobs)]_vars

\* one sweep that removed job 1 (aged 2 * TTL) and kept job 2 (aged TTL, acknowledged)
C4_Witness ==
    /\ req.op = "sweep"
    /\ now = 2 * TTL
    /\ Len(jobs) = 1
    /\ jobs[1].id = 2
    /\ jobs[1].createdAt = TTL
    /\ jobs[1].status = "processing"

\* C5: an authorized acknowledgment of a stored job changes status only if
\* the body carries one and result only if the body carries one, and always
\* sets updatedAt to the current time.
C5_AckAppliesOnlyGivenFields ==
    [][(req'.op = "ack" /\ req'.token = AGENT_TOKEN /\ JobsHas(jobs, req'.id)) =>
          /\ resp'.status = 200
          /\ JobsHas(jobs', req'.id)
          /\ LET old == JobsGet(jobs, req'.id)
                 new == JobsGet(jobs', req'.id)
             IN  /\ req'.body.status = UNDEFINED => new.status = old.status
                 /\ req'.body.result = UNDEFINED => new.result = old.result
                 /\ req'.body.status \notin {UNDEFINED, ""} => new.status = req'.body.status
                 /\ req'.body.result \notin {UNDEFINED, ""} => new.result = req'.body.result
                 /\ "updatedAt" \in DOMAIN new
                 /\ new.updatedAt = now']_vars

\* a result-only acknowledgment, later than the job's creation, of a job in processing
C5_Witness ==
    /\ req.op = "ack"
    /\ req.token = AGENT_TOKEN
    /\ req.body = AckBody(UNDEFINED, "ok")
    /\ JobsHas(jobs, req.id)
    /\ LET job == JobsGet(jobs, req.id) IN
          /\ job.status = "processing"
          /\ job.result = "ok"
          /\ job.updatedAt = now
          /\ job.createdAt < now

HasApiKey(r) ==
    r.apiKeyHdr = API_KEY \/ (r.apiKeyHdr = UNDEFINED /\ r.apiKeyQry = API_KEY)

\* C6: a submission with a valid API key but no (or an empty) printerName or
\* payload is answered 400 and leaves the store as it was.
C6_InvalidSubmissionRejected ==
    [][(/\ req'.op = "submit"
        /\ HasApiKey(req')
        /\ \/ req'.body.printerName \in {UNDEFINED, ""}
           \/ req'.body.payload \in {UNDEFINED, ""}) =>
          /\ resp'.status = 400
          /\ resp'.json.success = FALSE
          /\ jobs' = jobs
          /\ nextId' = nextId]_vars

\* a submission without payload, refused while the store holds a job
C6_Witness ==
    /\ req.op = "submit"
    /\ HasApiKey(req)
    /\ req.body.printerName = "P1"
    /\ req.body.payload = UNDEFINED
    /\ resp.status = 400
    /\ Len(jobs) > 0

WrongCredential(r) ==
    \/ r.op = "submit" /\ r.apiKeyHdr # API_KEY /\ r.apiKeyQry # API_KEY
    \/ r.op \in {"poll", "ack"} /\ r.token # AGENT_TOKEN

\* C7: a request with a wrong or missing credential (the other namespace's
\* secret included) is answered 401 with no job data, and changes nothing.
C7_UnauthorizedHasNoEffect ==
    [][WrongCredential(req') =>
          /\ resp'.status = 401
          /\ resp'.json.success = FALSE
          /\ DOMAIN resp'.json = {"success", "message"}
          /\ jobs' = jobs
          /\ nextId' = nextId]_vars

\* the API key presented as pairing token to a poll, over a pending job
C7_Witness ==
    /\ req.op = "poll"
    /\ req.token = API_KEY
    /\ resp.status = 401
    /\ \E i \in 1 .. Len(jobs) : jobs[i].status = "pending"

UniqueIds == \A i, k \in 1 .. Len(jobs) : jobs[i].id = jobs[k].id => i = k

\* C8: the store never holds two jobs with one id, and a successful
\* submission returns an id no stored job has and adds its job after the
\* jobs already stored, which stay as they were.
C8_JobIdsUnique ==
    /\ []UniqueIds
    /\ [][(req'.op = "submit" /\ resp'.status = 200) =>
             /\ resp'.json.jobId \notin Ids(jobs)
             /\ Len(jobs') = Len(jobs) + 1
             /\ SubSeq(jobs', 1, Len(jobs)) = jobs
             /\ jobs'[Len(jobs')].id = resp'.json.jobId]_vars

\* a second submission accepted while the first job is stored
C8_Witness ==
    /\ req.op = "submit"
    /\ resp.status = 200
    /\ resp.json.jobId = 2
    /\ Len(jobs) = 2
    /\ jobs[1].id = 1

\* C9: an authorized acknowledgment of an id the store does not hold is
\* answered 404, creates nothing and changes no job.
C9_AckUnknownJobNotFound ==
    [][(req'.op = "ack" /\ req'.token = AGENT_TOKEN /\ req'.id \notin Ids(jobs)) =>
          /\ resp'.status = 404
          /\ resp'.json.success = FALSE
          /\ jobs' = jobs]_vars

\* an acknowledgment of a job the sweeper removed, while another job is stored
C9_Witness ==
    /\ req.op = "ack"
    /\ req.token = AGENT_TOKEN
    /\ req.id < nextId
    /\ req.id \notin Ids(jobs)
    /\ resp.status = 404
    /\ Len(jobs) > 0

Returned(r) == {r.json.jobs[i] : i \in 1 .. Len(r.json.jobs)}

\* C11 (as stated): a poll changes nothing in the store, and a job one poll
\* returned is returned by the poll that follows it whenever that poll's
\* agentId matches the job.
C11_PollRedeliversToAnyMatchingPoll ==
    [][(AuthorizedPoll /\ req'.op = "poll" /\ req'.token = AGENT_TOKEN) =>
          /\ jobs' = jobs
          /\ \A job \in Returned(resp) :
                job.agentId \in {NULL, req'.agentId} => job \in Returned(resp')]_vars

\* C11 (amended): a poll changes nothing in the store, so a job one poll
\* returned is returned by the poll that follows it whenever it is among the
\* first PendingCap jobs eligible for that poll; a poll that follows with the
\* same agentId returns the same list.
C11_PollLeavesStoreUnchanged ==
    [][req'.op = "poll" =>
          /\ jobs' = jobs
          /\ nextId' = nextId
          /\ now' = now
          /\ (AuthorizedPoll /\ req'.token = AGENT_TOKEN) =>
                /\ LET eligible == Eligible(req'.agentId) IN
                   \A k \in 1 .. Min(PendingCap, Len(eligible)) :
                      eligible[k] \in Returned(resp) => eligible[k] \in Returned(resp')
                /\ Or(req'.agentId, NULL) = Or(req.agentId, NULL) =>
                      resp'.json.jobs = resp.json.jobs]_vars

\* a poll for agent B was given jobs, and each is still stored, pending and
\* unchanged, some of them scoped to no agent and open to any other poll
C11_Witness ==
    /\ AuthorizedPoll
    /\ req.agentId = "B"
    /\ Len(resp.json.jobs) > 1
    /\ \A job \in Returned(resp) :
          /\ job.status = "pending"
          /\ \E i \in 1 .. Len(jobs) : jobs[i] = job
    /\ \E i \in 1 .. Len(jobs) : jobs[i].status = "done"

\* the number a query-string value spells
QueryNumber(q) == CASE q = "1" -> 1 [] q = "2" -> 2 [] q = "3" -> 3

\* C12: an authorized poll that supplies a limit L returns at most L jobs,
\* the first L eligible ones; the size of the answer is bounded by the
\* caller's limit, not by a fixed number.
C12_PollHonoursLimit ==
    (AuthorizedPoll /\ req.limit # UNDEFINED) =>
        LET eligible == Eligible(req.agentId) IN
        resp.json.jobs = SubSeq(eligible, 1, Min(QueryNumber(req.limit), Len(eligible)))

WellFormedSubmit(r) ==
    /\ r.op = "submit"
    /\ HasApiKey(r)
    /\ r.body.printerName \notin {UNDEFINED, ""}
    /\ r.body.payload \notin {UNDEFINED, ""}

\* the jobs stored before the newest one that a poll for `agentId' considers
OlderEligible(agentId) ==
    SelectSeq(SubSeq(jobs, 1, Len(jobs) - 1), LAMBDA job :
        job.status = "pending" /\ (job.agentId = NULL \/ job.agentId = agentId))

\* C13: a well-formed, authorized submission succeeds and adds exactly one
\* job, pending and without result, after the jobs already stored, which stay
\* as they were; the authorized poll that follows it returns the new job if
\* its agentId matches and fewer than PendingCap older eligible jobs precede it.
C13_SubmissionAddsOnePendingJob ==
    [][/\ WellFormedSubmit(req') =>
             /\ resp'.status = 200
             /\ resp'.json.success = TRUE
             /\ Len(jobs') = Len(jobs) + 1
             /\ SubSeq(jobs', 1, Len(jobs)) = jobs
             /\ LET new == jobs'[Len(jobs')] IN
                   /\ new.id = resp'.json.jobId
                   /\ new.status = "pending"
                   /\ new.result = NULL
                   /\ new.printerName = req'.body.printerName
                   /\ new.payload = req'.body.payload
       /\ (WellFormedSubmit(req) /\ req'.op = "poll" /\ req'.token = AGENT_TOKEN) =>
             LET new == jobs[Len(jobs)] IN
             (/\ new.agentId \in {NULL, req'.agentId}
              /\ Len(OlderEligible(req'.agentId)) < PendingCap)
                 => new \in Returned(resp')]_vars

\* a submission accepted into a store that already holds more jobs than a
\* poll returns, few enough of them pending for the new job to be polled
C13_Witness ==
    /\ WellFormedSubmit(req)
    /\ resp.status = 200
    /\ Len(jobs) > PendingCap + 1
    /\ jobs[Len(jobs)].id = resp.json.jobId
    /\ jobs[Len(jobs)].status = "pending"
    /\ jobs[Len(jobs)].agentId = "A"
    /\ Len(OlderEligible("A")) = PendingCap - 1

\* C14: while a job is stored, its id, createdAt, agentId, printerName and
\* payload never change, only the sweeper removes it, and nothing about it
\* (its result and status included) changes except by an authorized
\* acknowledgment addressed to its id; an acknowledgment changes no other job.
C14_AckTouchesOnlyItsJob ==
    [][\A i \in 1 .. Len(jobs) :
          /\ req'.op # "sweep" => jobs[i].id \in Ids(jobs')
          /\ \A k \in 1 .. Len(jobs') :
                jobs'[k].id = jobs[i].id =>
                   /\ jobs'[k].createdAt = jobs[i].createdAt
                   /\ jobs'[k].agentId = jobs[i].agentId
                   /\ jobs'[k].printerName = jobs[i].printerName
                   /\ jobs'[k].payload = jobs[i].payload
                   /\ k = i \/ req'.op = "sweep"
                   /\ jobs'[k] # jobs[i] =>
                         /\ req'.op = "ack"
                         /\ req'.token = AGENT_TOKEN
                         /\ req'.id = jobs[i].id]_vars

\* job 2 acknowledged with a status and a result, later than its creation,
\* next to job 1, which is as it was created
C14_Witness ==
    /\ req.op = "ack"
    /\ req.token = AGENT_TOKEN
    /\ req.id = 2
    /\ req.body = AckBody("done", "ok")
    /\ Len(jobs) = 2
    /\ jobs[1].id = 1
    /\ jobs[1].status = "pending"
    /\ jobs[1].result = NULL
    /\ "updatedAt" \notin DOMAIN jobs[1]
    /\ jobs[2].id = 2
    /\ jobs[2].result = "ok"
    /\ jobs[2].createdAt < now

\* C15: for every command runCommand started: once its timer has run out or
\* been cleared the process has been killed or has ended and the promise is
\* settled; a timer that ran out (the timeout came before the close) killed
\* the process and left the promise rejected with Timeout, whatever came
\* later; a normal exit resolves it and a failed spawn rejects it; and a
\* settled promise never changes again.
C15_RunCommandSettlesOnceAndKills ==
    /\ [](\A i \in 1 .. Len(runs) :
            LET run == runs[i] IN
            /\ run.timer # "armed" => (run.killed \/ run.proc # "running")
            /\ run.timer # "armed" => Settled(run.promise)
            /\ run.timer = "fired" => (run.killed /\ run.promise = Rejected("Timeout"))
            /\ (run.proc = "exited" /\ run.timer = "cleared") =>
                  run.promise.state = "resolved"
            /\ run.proc = "failed" => run.promise.state = "rejected")
    /\ [][(pc' = pc \/ pc \notin {"idle", "done"}) =>
             \A i \in 1 .. Min(Len(runs), Len(runs')) :
                Settled(runs[i].promise) => runs'[i].promise = runs[i].promise]_agentVars

\* lp ran past its timeout, was killed and then closed: the close found the
\* promise rejected with Timeout and left it so
C15_Witness ==
    /\ Len(runs) > 0
    /\ runs[1].cmd = "lp"
    /\ runs[1].timer = "fired"
    /\ runs[1].killed
    /\ runs[1].proc = "exited"
    /\ runs[1].promise = Rejected("Timeout")

AuthorizedAck(r) == r.op = "ack" /\ r.token = AGENT_TOKEN

\* a poll returns stored jobs whose status is exactly "pending", and no other
PollReturnsOnlyPending ==
    AuthorizedPoll =>
        /\ \A job \in Returned(resp) : job.status = "pending"
        /\ \A i \in 1 .. Len(jobs) :
              jobs[i].status # "pending" =>
                 \A job \in Returned(resp) : job.id # jobs[i].id

\* C16 (as stated): an acknowledgment stores any status string of its body
\* verbatim, and polls return a job only while its status is exactly "pending".
C16_AckStoresAnyStatusString ==
    /\ [][(AuthorizedAck(req') /\ JobsHas(jobs, req'.id) /\ req'.body.status # UNDEFINED) =>
             JobsGet(jobs', req'.id).status = req'.body.status]_vars
    /\ []PollReturnsOnlyPending

\* C16 (amended): an acknowledgment stores any non-empty status string of
\* its body verbatim, one outside the named statuses included, and leaves
\* the status as it was for an empty string; polls return a job only while
\* its status is exactly "pending".
C16_AckStoresNonEmptyStatus ==
    /\ [][(AuthorizedAck(req') /\ JobsHas(jobs, req'.id)) =>
             /\ req'.body.status \notin {UNDEFINED, ""} =>
                   JobsGet(jobs', req'.id).status = req'.body.status
             /\ req'.body.status = "" =>
                   JobsGet(jobs', req'.id).status = JobsGet(jobs, req'.id).status]_vars
    /\ []PollReturnsOnlyPending

\* a poll that matches job 1, whose stored status is "Pending": it returns
\* the pending job 2 and not job 1
C16_Witness ==
    /\ AuthorizedPoll
    /\ req.agentId = UNDEFINED
    /\ Len(jobs) = 2
    /\ jobs[1].status = "Pending"
    /\ jobs[1].agentId = NULL
    /\ jobs[2].status = "pending"
    /\ resp.json.jobs = <<jobs[2]>>

\* C17: in the non-Windows /print path the temp file exists for as long as
\* a print command (lp, then the lpr fallback) started on it is running.
C17_TempFileOutlivesPrintCommands ==
    \A i \in 1 .. Len(runs) :
        (runs[i].cmd \in {"lp", "lpr"} /\ runs[i].proc = "running") =>
            tmpFile = "exists"

\* C18: when /print has sent its response, no temp file it created is left.
C18_TempFileRemovedBeforeResponse ==
    (areq.op = "print" /\ ares.status # 0) => tmpFile # "exists"

\* C19: a /print or /printers request whose x-pairing-token is not the
\* configured token is answered 401 and has started no command, called no
\* native printer function and created no temp file; an authorized /print
\* without printerName is answered 400 and has done none of these either.
C19_NoActionWithoutToken ==
    /\ (areq.op \in {"print", "printers"} /\ areq.token # PAIRING_TOKEN) =>
          /\ ares.status = 401
          /\ runs = <<>>
          /\ nativeCalls = 0
          /\ tmpFile = "none"
    /\ (/\ areq.op = "print"
        /\ areq.token = PAIRING_TOKEN
        /\ areq.body.printerName \in {UNDEFINED, ""}) =>
          /\ ares.status = 400
          /\ runs = <<>>
          /\ nativeCalls = 0
          /\ tmpFile = "none"

\* the queue server's agent token presented to /print on a host that would
\* otherwise run lp: refused
C19_Witness ==
    /\ areq.op = "print"
    /\ areq.token = AGENT_TOKEN
    /\ areq.body.printerName = "P1"
    /\ host.platform = "linux"
    /\ ares.status = 401
    /\ runs = <<>>

CountStatus(s) == Cardinality({i \in 1 .. Len(jobs) : jobs[i].status = s})

\* C10: a health check reports, for each status, the number of stored jobs in
\* that status (so completedJobs grows by one when an acknowledgment
\* completes a job).
C10_HealthReportsCounts ==
    req.op = "health" =>
        /\ "stats" \in DOMAIN resp.json
        /\ resp.json.stats.totalJobs = Len(jobs)
        /\ resp.json.stats.pendingJobs = CountStatus("pending")
        /\ resp.json.stats.processingJobs = CountStatus("processing")
        /\ resp.json.stats.completedJobs = CountStatus("done")
        /\ resp.json.stats.errorJobs = CountStatus("error")

====
